---- MODULE Spec2Model ----
(***************************************************************************)
(* Model of the pyBEEP potentiostat driver: PotentiostatController         *)
(* (src/src/pyBEEP/controller.py) and DataLogger (src/src/pyBEEP/logger.py) *)
(*                                                                         *)
(* Units.  Time is counted in ticks of 100 ms (BUSSY_DLAY_NS = 400e6 ns is *)
(* 4 ticks).  Durations and sampling intervals are counted in half         *)
(* POINT_INTERVALs, so that a value that is not a multiple of              *)
(* POINT_INTERVAL can be given.  A sample is identified by its enqueue     *)
(* index (0-based) within its measurement.  last_holder records the       *)
(* caller that acquired device_lock most recently; the code keeps no such  *)
(* record, the properties of last_plot_path refer to it.                   *)
(***************************************************************************)
EXTENDS Integers, Sequences, FiniteSets, TLC

VARIABLES pc, req, device_lock, last_plot_path, acq, data_queue, log, file,
          switch, now, inputs, budget, calc, last_holder

vars == <<pc, req, device_lock, last_plot_path, acq, data_queue, log, file,
          switch, now, inputs, budget, calc, last_holder>>

----------------------------------------------------------------------------
(* Bounds of the model                                                     *)

\* last value of the monotonic clock that the model distinguishes
MaxTime == 5

\* transport faults the link may produce in the specification with two
\* concurrent callers (Unlimited in the single-caller specification)
MaxFaults == 2
Unlimited == 0 - 1

Callers == {"c1", "c2"}

\* mode codes passed to apply_measurement ("EIS" is not in the registry)
ModeInputs == {"CA", "cp", "STEPSEQ", "OCP", "EIS"}

\* duration / step_duration arguments, in half POINT_INTERVALs
DurationInputs == {0, 60, 83, 122}

\* sampling_interval arguments, in half POINT_INTERVALs (NoInterval = None)
NoInterval == 0 - 1
SamplingInputs == {NoInterval, 4}

\* number of currents passed to the STEPSEQ technique
NumCurrents == 2

\* a write_func given to _run_measurement puts at most MaxBatches batches
\* with at most MaxFeed rows in all, each batch of one of the FeedSizes
MaxBatches == 5
MaxFeed == 70
FeedSizes == {1, 10, 21, 30}

\* parameters given to the waveform generators: levels (potentials or
\* currents, in level units), scan rates (level units per POINT_INTERVAL),
\* durations (half POINT_INTERVALs), numbers of cycles and of steps
Levels == {0 - 1, 0, 2}
ScanRates == {1, 2}
WaveDurations == {0, 1, 4, 5}
MaxCycles == 2
MaxSteps == 2

\* bytes of the float32 bit patterns that are packed and decoded
ByteInputs == {0, 1, 128, 255}

\* sampling_interval arguments of DataLogger(...), in half POINT_INTERVALs
\* (0 - 4 is a negative interval, NoInterval is None)
LoggerSamplings == {NoInterval, 0 - 4, 0, 1, 2, 3, 4, 5, 7, 50}

\* waveform lengths (as durations) and sampling intervals of the logger runs
LogDurations == {0, 58, 83, 120}
LogSamplings == {NoInterval, 4, 6, 50}

----------------------------------------------------------------------------
(* Program constants                                                       *)

BUSSY_DLAY_NS == 4
N_REGISTER == 120
RD_ERR_LIMIT == 16
WR_ERR_LIMIT == 10
POST_READ_ATTEMPTS == 3
FLUSH_THRESHOLD == 20
\* 16-bit words per float32, float32 values per (current, potential) pair
WORDS_PER_FLOAT == 2
FLOATS_PER_SAMPLE == 2

None == "None"

ModeName == {"CA", "LSV", "CV", "PSTEP", "CP", "GS", "GCV", "STEPSEQ", "OCP"}

Min(a, b) == IF a < b THEN a ELSE b
Max(a, b) == IF a > b THEN a ELSE b

\* str.upper() on the mode codes the model passes in
Upper(m) == CASE m = "cp" -> "CP" [] m = "ca" -> "CA" [] OTHER -> m

\* available_modes[...]["mode_type"]
mode_type(name) ==
    CASE name \in {"CA", "LSV", "CV", "PSTEP"} -> "POT"
      [] name \in {"CP", "GS", "GCV", "STEPSEQ"} -> "GAL"
      [] name = "OCP" -> "OCP"
      [] OTHER -> "NONE"

\* the "pid" entries of available_modes (controller.py 77-132)
available_modes_pid(name) == name \in {"CP", "GS", "GCV", "STEPSEQ"}

\* the keys of every entry of available_modes
available_modes_keys == {"mode_type", "waveform_func", "param_class", "pid"}

\* the fields that class MeasurementMode declares
MeasurementMode == {"mode_type", "waveform_func", "param_class"}

\* MeasurementModeMap.model_validate: pydantic keeps the declared fields of
\* each entry and ignores every other key
model_validate(keys) == keys \cap MeasurementMode

\* is_pid_active: self._get_mode(mode).pid; the lookup raises ValueError
\* (listing the valid codes) for an unknown code, and reading an attribute
\* that the validated entry does not have raises AttributeError
is_pid_active(mode) ==
    IF Upper(mode) \notin ModeName
    THEN [raised |-> "ValueError", value |-> FALSE, listed |-> ModeName]
    ELSE IF "pid" \notin model_validate(available_modes_keys)
         THEN [raised |-> "AttributeError", value |-> FALSE, listed |-> {}]
         ELSE [raised |-> "none", value |-> available_modes_pid(Upper(mode)), listed |-> {}]

\* _get_mode: ModeName(mode.upper()) raises ValueError for an unknown code
get_mode_ok(mode) == Upper(mode) \in ModeName

\* param_class(**params): the pydantic validation of the parameter mapping
params_valid(r) == r.params_ok

\* apply_measurement lines 321-331: both checks pass
request_valid_mode_only(r) == get_mode_ok(r.mode)
request_valid(r) == get_mode_ok(r.mode) /\ params_valid(r)

\* int(duration / POINT_INTERVAL), duration in half POINT_INTERVALs
num_points(duration) == duration \div 2

\* waveform_func(**params): length N of time/stimulus and the segment lengths
waveform(r) ==
    LET name == Upper(r.mode)
        n == num_points(r.duration)
    IN  CASE name = "STEPSEQ" ->
               [N |-> NumCurrents * n, length_steps |-> [k \in 1..NumCurrents |-> n]]
          [] name = "CP" -> [N |-> n, length_steps |-> <<n>>]
          [] OTHER -> [N |-> n, length_steps |-> <<>>]

\* round() of x/2 for x >= 0: Python rounds halves to the even integer
RoundHalf(x) ==
    LET q == x \div 2
    IN  IF x % 2 = 0 THEN q ELSE IF q % 2 = 0 THEN q ELSE q + 1

\* DataLogger.__init__: reducing_factor from sampling_interval
reducing_factor_unclamped(si) == IF si = NoInterval THEN 1 ELSE RoundHalf(si)
reducing_factor(si) ==
    IF si = NoInterval THEN 1
    ELSE LET clamped == IF si < 2 THEN 2 ELSE si
         IN  RoundHalf(clamped)

----------------------------------------------------------------------------
(* State                                                                   *)

NoReq == [mode |-> "", params_ok |-> FALSE, duration |-> 0, sampling_interval |-> NoInterval]

\* the params dict and the loop variables of one acquisition thread; of the
\* iteration in progress, wr_att and rd_att count the write and read requests
\* put on the link and rd_calls the calls of _read_operation; setup_sent
\* lists the commands that _setup_measurement has issued and rd_ok counts
\* the reads that returned data
AcqInit ==
    [pc |-> "idle", cause |-> "none", step |-> 0,
     wr_err_cnt |-> 0, rd_err_cnt |-> 0, wr_dly_st |-> 0, rd_dly_st |-> 0,
     wr_tx_reg |-> 0, rd_tx_reg |-> 0, st |-> 0,
     i |-> 0, post_read_attempts |-> 0, rd_k |-> 0, seg |-> 1,
     enqueued |-> 0, rd_fails |-> 0, wr_fails |-> 0, ever_ok |-> FALSE,
     td_sent |-> 0, wr_att |-> 0, rd_att |-> 0, rd_calls |-> 0,
     setup_sent |-> <<>>, rd_ok |-> 0,
     wr_data |-> [from |-> 0, to |-> 0], written |-> <<>>]

LogInit == [pc |-> "idle", buffer |-> <<>>, data_idx |-> 0, got |-> 0]

FileInit == [exists |-> FALSE, rows |-> <<>>, closed |-> FALSE]

\* no call of a waveform generator, of the float packing or of the logger's
\* constructor is on record
NoCall == [op |-> "none"]

InitState ==
    /\ pc = [c \in Callers |-> "idle"]
    /\ req = [c \in Callers |-> NoReq]
    /\ device_lock = None
    /\ last_plot_path = None
    /\ acq = [c \in Callers |-> AcqInit]
    /\ data_queue = [c \in Callers |-> <<>>]
    /\ log = [c \in Callers |-> LogInit]
    /\ file = [c \in Callers |-> FileInit]
    /\ switch = 0
    /\ now \in {BUSSY_DLAY_NS, MaxTime}
    /\ calc = NoCall
    /\ last_holder = None

----------------------------------------------------------------------------
(* DataLogger                                                              *)

HeaderRow == [kind |-> "header", time |-> 0 - 1, samples |-> <<>>, meta |-> <<>>]

\* one averaged CSV row: Time is the first row of the chunk, every other
\* column is the mean over the chunk (recorded as the contributing rows)
avg_row(chunk) ==
    [kind |-> "data", time |-> chunk[1].widx,
     samples |-> [k \in 1..Len(chunk) |-> chunk[k].sample],
     meta |-> [k \in 1..Len(chunk) |-> chunk[k].widx]]

\* logger.py 163-168: while len(enriched_buffer) - idx >= factor
RECURSIVE write_groups(_, _, _)
write_groups(enriched, idx, factor) ==
    IF Len(enriched) - idx >= factor
    THEN LET r == write_groups(enriched, idx + factor, factor)
         IN  [rows |-> <<avg_row(SubSeq(enriched, idx + 1, idx + factor))>> \o r.rows,
              idx |-> r.idx]
    ELSE [rows |-> <<>>, idx |-> idx]

\* len(getattr(waveform, key)[data_idx:new_idx]) for an array of length wfN
slice_len(wfN, data_idx, new_idx) ==
    Max(0, Min(new_idx, wfN) - Min(data_idx, wfN))

\* the waveform index of the k-th row of the slice [data_idx:new_idx]
waveform_index_unshifted(data_idx, k) == k - 1
waveform_index(data_idx, k) == data_idx + k - 1

\* buffer.extend(item)
buffer_extend(buffer, item) == buffer \o item

\* DataLogger._save_batch; returns the rows written, the remaining buffer
\* and the updated data_idx
save_batch(wfN, factor, buffer, data_idx, flush_all) ==
    LET n == Len(buffer)
        new_idx == data_idx + n
        min_len == Min(n, slice_len(wfN, data_idx, new_idx))
        enriched == [k \in 1..min_len |->
                        [sample |-> buffer[k], widx |-> waveform_index(data_idx, k)]]
        header == IF data_idx = 0 THEN <<HeaderRow>> ELSE <<>>
    IN  IF factor < 2
        THEN [rows |-> header \o [k \in 1..min_len |-> avg_row(<<enriched[k]>>)],
              buffer |-> <<>>,
              data_idx |-> new_idx]
        ELSE LET g == write_groups(enriched, 0, factor)
                 tail == flush_all /\ g.idx < min_len
                 idx == IF tail THEN min_len ELSE g.idx
                 last == IF tail
                         THEN <<avg_row(SubSeq(enriched, g.idx + 1, min_len))>>
                         ELSE <<>>
             IN  [rows |-> header \o g.rows \o last,
                  buffer |-> SubSeq(buffer, idx + 1, n),
                  data_idx |-> new_idx - (min_len - idx)]

\* logger.py 69: the condition of a non-final flush
flush_due(buffer, factor) ==
    Len(buffer) > FLUSH_THRESHOLD /\ Len(buffer) > factor

Batch(ids) == [kind |-> "batch", samples |-> ids]
SentinelItem == [kind |-> "None", samples |-> <<>>]

\* data_queue.put(rd_list): the decoded rows of one read are one item
queue_put_each(q, rd_list) == q \o [k \in 1..Len(rd_list) |-> Batch(<<rd_list[k]>>)]
queue_put(q, rd_list) == Append(q, Batch(rd_list))

\* self.queue.get() on a queue.Queue: the oldest item
queue_get_lifo(q) == [item |-> q[Len(q)], rest |-> SubSeq(q, 1, Len(q) - 1)]
queue_get(q) == [item |-> Head(q), rest |-> Tail(q)]

\* DataLogger.run line 62: the file is created (truncated) when the thread starts
LogOpen(c) ==
    /\ log[c].pc = "start"
    /\ file' = [file EXCEPT ![c] = [exists |-> TRUE, rows |-> <<>>, closed |-> FALSE]]
    /\ log' = [log EXCEPT ![c].pc = "run"]
    /\ UNCHANGED <<pc, req, device_lock, last_plot_path, acq, data_queue, switch, now, inputs, budget, calc, last_holder>>

\* DataLogger.run lines 64-71: one iteration of the consumer loop
LogGet(c) ==
    /\ log[c].pc = "run"
    /\ data_queue[c] # <<>>
    /\ LET item == queue_get(data_queue[c]).item
           factor == reducing_factor(req[c].sampling_interval)
           wfN == waveform(req[c]).N
       IN  /\ data_queue' = [data_queue EXCEPT ![c] = queue_get(@).rest]
           /\ IF item.kind = "None"
              THEN /\ log' = [log EXCEPT ![c].pc = "final"]
                   /\ UNCHANGED file
              ELSE LET buf == buffer_extend(log[c].buffer, item.samples)
                   IN  IF flush_due(buf, factor)
                       THEN LET r == save_batch(wfN, factor, buf, log[c].data_idx, FALSE)
                            IN  /\ log' = [log EXCEPT ![c].buffer = r.buffer,
                                                      ![c].data_idx = r.data_idx,
                                                      ![c].got = @ + 1]
                                /\ file' = [file EXCEPT ![c].rows = @ \o r.rows]
                       ELSE /\ log' = [log EXCEPT ![c].buffer = buf, ![c].got = @ + 1]
                            /\ UNCHANGED file
    /\ UNCHANGED <<pc, req, device_lock, last_plot_path, acq, switch, now, inputs, budget, calc, last_holder>>

\* DataLogger.run lines 72-75: the final flush, the file is closed
LogFinal(c) ==
    /\ log[c].pc = "final"
    /\ LET factor == reducing_factor(req[c].sampling_interval)
           wfN == waveform(req[c]).N
           r == save_batch(wfN, factor, log[c].buffer, log[c].data_idx, TRUE)
       IN  file' = [file EXCEPT ![c].rows = IF log[c].buffer # <<>> THEN @ \o r.rows ELSE @,
                                ![c].closed = TRUE]
    /\ log' = [log EXCEPT ![c].pc = "stopped"]
    /\ UNCHANGED <<pc, req, device_lock, last_plot_path, acq, data_queue, switch, now, inputs, budget, calc, last_holder>>

----------------------------------------------------------------------------
(* Device and clock                                                        *)

\* monotonic_ns(): a value not before the previous reading
ClockRead == {t \in now..MaxTime : t <= now + 1}

\* controller.py 377 / 604: the busy-delay test guarding an attempt
gate_open_since_failure(st, dly_st, busy) == (st - dly_st) > busy
gate_open(st, dly_st, busy) == (st - dly_st * 0) > busy

\* the ceilings of controller.py 386 and 612
rd_exhausted(cnt) == cnt > RD_ERR_LIMIT
wr_exhausted(cnt) == cnt > WR_ERR_LIMIT

\* params["rd_err_cnt"] = 0 / params["wr_err_cnt"] = 0 after an attempt that
\* succeeded
err_cnt_kept(cnt) == cnt
err_cnt_after_success(cnt) == 0

\* convert_uint16_to_float32: number of (current, potential) rows decoded
\* from a list of 16-bit words
pairs_of_words(words) == (words \div WORDS_PER_FLOAT) \div FLOATS_PER_SAMPLE

\* the ids of the samples of the next decoded batch
next_batch(a) == [k \in 1..pairs_of_words(N_REGISTER) |-> a.enqueued + k - 1]

family(c) == mode_type(Upper(req[c].mode))

\* _setup_measurement as called by each acquisition variant
setup_cmds_fifo_start_always(fam) ==
    <<"SET_TIA_GAIN", "CLEAR_FIFO", "FIFO_START", "SET_SWITCH">>
setup_cmds(fam) ==
    IF fam = "GAL"
    THEN <<"SET_TIA_GAIN", "CLEAR_FIFO", "SET_SWITCH">>
    ELSE <<"SET_TIA_GAIN", "CLEAR_FIFO", "FIFO_START", "SET_SWITCH">>

\* _teardown_measurement
teardown_cmds == <<"SET_SWITCH_OFF", "TEST_STOP">>

\* the link may still produce a fault; a fault uses up one of the budget
can_fault == budget # 0
spend == IF budget = Unlimited THEN budget ELSE budget - 1

\* the thread dies: an exception (or exit()) leaves the thread function
die_after_teardown(a, why) == [a EXCEPT !.pc = "teardown", !.step = 1, !.cause = why]
die(a, why) == [a EXCEPT !.pc = "fatal", !.cause = why]

\* what the transport does with one Modbus request: it answers, the device
\* reports an error (minimalmodbus.SlaveReportedException), or any other
\* failure of the serial link (no response, bad checksum)
LinkOutcomes == {"none", "slave_reported", "no_response"}

\* PotentiostatDevice.send_command: one write_registers request; a
\* SlaveReportedException is caught and exit() is called, everything else
\* propagates
send_command(fault) ==
    CASE fault = "none" -> "returns"
      [] fault = "slave_reported" -> "system_exit"
      [] OTHER -> "raises"

\* how a thread ends when send_command does not return
command_death(a, outcome) ==
    die(a, IF outcome = "system_exit" THEN "system_exit" ELSE "command_fault")

----------------------------------------------------------------------------
(* Acquisition threads                                                     *)

\* one send_command of _setup_measurement; a transport fault ends the thread
AcqSetup(c) ==
    /\ acq[c].pc = "setup"
    /\ LET cmds == setup_cmds(family(c))
           cmd == cmds[acq[c].step]
       IN  \E fault \in LinkOutcomes :
             IF send_command(fault) = "returns"
             THEN /\ switch' = IF cmd = "SET_SWITCH" THEN 1 ELSE switch
                  /\ acq' = [acq EXCEPT ![c] =
                        IF acq[c].step = Len(cmds)
                        THEN [@ EXCEPT !.pc = IF family(c) = "GAL" THEN "seg" ELSE "loop",
                                       !.step = 0,
                                       !.setup_sent = Append(@, cmd)]
                        ELSE [@ EXCEPT !.step = @ + 1,
                                       !.setup_sent = Append(@, cmd)]]
                  /\ UNCHANGED budget
             ELSE /\ can_fault
                  /\ budget' = spend
                  /\ acq' = [acq EXCEPT ![c] =
                        command_death([@ EXCEPT !.setup_sent = Append(@, cmd)],
                                      send_command(fault))]
                  /\ UNCHANGED switch
    /\ UNCHANGED <<pc, req, device_lock, last_plot_path, data_queue, log, file, now, inputs, calc, last_holder>>

\* controller.py 597-599: the while test of the potentiostatic loop, where it
\* can be evaluated (the ratio is not defined for wr_tx_reg = 0)
pot_loop_continues_no_drain(a) == a.post_read_attempts < POST_READ_ATTEMPTS
pot_loop_continues(a) ==
    \/ a.post_read_attempts < POST_READ_ATTEMPTS
    \/ (a.wr_tx_reg # 0 /\ a.rd_tx_reg < 2 * a.wr_tx_reg)

\* controller.py 597-600: the while test of the potentiostatic loop and st
PotLoop(c) ==
    /\ acq[c].pc = "loop" /\ family(c) = "POT"
    /\ LET a == acq[c]
           n_items == WORDS_PER_FLOAT * waveform(req[c]).N
       IN  IF pot_loop_continues(a)
           THEN \E st \in ClockRead :
                  /\ now' = st
                  /\ acq' = [acq EXCEPT ![c].st = st,
                                        ![c].pc = IF a.i < n_items THEN "write" ELSE "read",
                                        ![c].rd_k = 2,
                                        ![c].wr_att = 0, ![c].rd_att = 0,
                                        ![c].rd_calls = 0]
           ELSE /\ acq' = [acq EXCEPT ![c] =
                      IF a.wr_tx_reg = 0
                      THEN die(@, "zero_division")
                      ELSE [@ EXCEPT !.pc = "teardown", !.step = 1]]
                /\ UNCHANGED now
    /\ UNCHANGED <<pc, req, device_lock, last_plot_path, data_queue, log, file, switch, inputs, budget, calc, last_holder>>

\* controller.py 602: write_list[i : i + n_register], as the positions of
\* its first and last word in write_list (a slice ends with the list)
write_slice_from_start(i, n_items) == [from |-> 1, to |-> Min(N_REGISTER, n_items)]
write_slice(i, n_items) == [from |-> i + 1, to |-> Min(i + N_REGISTER, n_items)]

\* controller.py 601-616: the write attempt of one iteration
PotWrite(c) ==
    /\ acq[c].pc = "write"
    /\ LET a == acq[c]
           data == write_slice(a.i, WORDS_PER_FLOAT * waveform(req[c]).N)
       IN  IF gate_open(a.st, a.wr_dly_st, BUSSY_DLAY_NS)
           THEN \/ /\ acq' = [acq EXCEPT ![c].wr_err_cnt = err_cnt_after_success(@),
                                         ![c].wr_tx_reg = @ + N_REGISTER,
                                         ![c].i = @ + N_REGISTER,
                                         ![c].wr_fails = 0,
                                         ![c].ever_ok = TRUE,
                                         ![c].wr_att = 1,
                                         ![c].wr_data = data,
                                         ![c].written = Append(@, data),
                                         ![c].pc = "read"]
                   /\ UNCHANGED <<now, budget>>
                \/ \E t \in ClockRead :
                     /\ can_fault
                     /\ budget' = spend
                     /\ now' = t
                     /\ acq' = [acq EXCEPT ![c] =
                          LET b == [a EXCEPT !.wr_dly_st = t,
                                             !.wr_err_cnt = @ + 1,
                                             !.wr_fails = @ + 1,
                                             !.wr_att = 1,
                                             !.wr_data = data]
                          IN  IF wr_exhausted(b.wr_err_cnt)
                              THEN die(b, "link_exhausted")
                              ELSE [b EXCEPT !.pc = "read"]]
           ELSE /\ acq' = [acq EXCEPT ![c].pc = "read"]
                /\ UNCHANGED <<now, budget>>
    /\ UNCHANGED <<pc, req, device_lock, last_plot_path, data_queue, log, file, switch, inputs, calc, last_holder>>

\* what follows a read attempt that did not end the thread
after_read_once(fam, n_items, a) ==
    [a EXCEPT !.rd_k = 0, !.pc = "loop",
              !.post_read_attempts = IF fam = "POT" /\ a.i >= n_items THEN @ + 1 ELSE @]
after_read(fam, n_items, a) ==
    IF fam = "POT"
    THEN IF a.rd_k > 1
         THEN [a EXCEPT !.rd_k = @ - 1]
         ELSE [a EXCEPT !.rd_k = 0, !.pc = "loop",
                        !.post_read_attempts = IF a.i >= n_items THEN @ + 1 ELSE @]
    ELSE [a EXCEPT !.pc = "loop"]

\* len(rd_data) in the potentiostatic loop, len(rd_list) in the other two
rd_increment(fam) ==
    IF fam = "POT" THEN N_REGISTER ELSE pairs_of_words(N_REGISTER)

\* _read_operation and the handling of its result by the calling loop
Read(c) ==
    /\ acq[c].pc = "read"
    /\ LET a == acq[c]
           fam == family(c)
           n_items == WORDS_PER_FLOAT * waveform(req[c]).N
       IN  IF gate_open(a.st, a.rd_dly_st, BUSSY_DLAY_NS)
           THEN \/ /\ data_queue' = [data_queue EXCEPT ![c] = queue_put(@, next_batch(a))]
                   /\ acq' = [acq EXCEPT ![c] =
                         after_read(fam, n_items,
                            [a EXCEPT !.rd_tx_reg = @ + rd_increment(fam),
                                      !.rd_err_cnt = err_cnt_after_success(@),
                                      !.enqueued = @ + pairs_of_words(N_REGISTER),
                                      !.rd_fails = 0,
                                      !.ever_ok = TRUE,
                                      !.rd_att = @ + 1,
                                      !.rd_calls = @ + 1,
                                      !.rd_ok = @ + 1])]
                   /\ UNCHANGED <<now, budget>>
                \/ \E t \in ClockRead :
                     /\ can_fault
                     /\ budget' = spend
                     /\ now' = t
                     /\ acq' = [acq EXCEPT ![c] =
                          LET b == [a EXCEPT !.rd_dly_st = t,
                                             !.rd_err_cnt = @ + 1,
                                             !.rd_fails = @ + 1,
                                             !.rd_att = @ + 1,
                                             !.rd_calls = @ + 1]
                          IN  IF rd_exhausted(b.rd_err_cnt)
                              THEN die(b, "link_exhausted")
                              ELSE after_read(fam, n_items, b)]
                     /\ UNCHANGED data_queue
           ELSE /\ acq' = [acq EXCEPT ![c] =
                      after_read(fam, n_items, [a EXCEPT !.rd_calls = @ + 1])]
                /\ UNCHANGED <<now, data_queue, budget>>
    /\ UNCHANGED <<pc, req, device_lock, last_plot_path, log, file, switch, inputs, calc, last_holder>>

\* controller.py 483-497: next segment, the PID target is written once and
\* outside any try block
GalSegment(c) ==
    /\ acq[c].pc = "seg"
    /\ LET a == acq[c]
           lens == waveform(req[c]).length_steps
       IN  IF a.seg > Len(lens)
           THEN /\ acq' = [acq EXCEPT ![c].pc = "teardown", ![c].step = 1]
                /\ UNCHANGED budget
           ELSE \/ /\ acq' = [acq EXCEPT ![c].pc = "loop", ![c].wr_fails = 0,
                                         ![c].ever_ok = TRUE]
                   /\ UNCHANGED budget
                \/ /\ can_fault
                   /\ budget' = spend
                   /\ acq' = [acq EXCEPT ![c] =
                         die([@ EXCEPT !.wr_fails = @ + 1], "write_fault")]
    /\ UNCHANGED <<pc, req, device_lock, last_plot_path, data_queue, log, file, switch, now, inputs, calc, last_holder>>

\* controller.py 500-501: the while test of a segment and st
GalLoop(c) ==
    /\ acq[c].pc = "loop" /\ family(c) = "GAL"
    /\ LET a == acq[c]
           length == waveform(req[c]).length_steps[a.seg]
       IN  IF a.rd_tx_reg < length
           THEN \E st \in ClockRead :
                  /\ now' = st
                  /\ acq' = [acq EXCEPT ![c].st = st, ![c].pc = "read",
                                        ![c].wr_att = 0, ![c].rd_att = 0,
                                        ![c].rd_calls = 0]
           ELSE /\ acq' = [acq EXCEPT ![c].seg = @ + 1, ![c].pc = "seg"]
                /\ UNCHANGED now
    /\ UNCHANGED <<pc, req, device_lock, last_plot_path, data_queue, log, file, switch, inputs, budget, calc, last_holder>>

\* controller.py 413-417: the while test of the open-circuit loop and st
OcpLoop(c) ==
    /\ acq[c].pc = "loop" /\ family(c) = "OCP"
    /\ LET a == acq[c]
           n_items == waveform(req[c]).N * 2
       IN  IF a.rd_tx_reg < n_items
           THEN \E st \in ClockRead :
                  /\ now' = st
                  /\ acq' = [acq EXCEPT ![c].st = st, ![c].pc = "read",
                                        ![c].wr_att = 0, ![c].rd_att = 0,
                                        ![c].rd_calls = 0]
           ELSE /\ acq' = [acq EXCEPT ![c].pc = "teardown", ![c].step = 1]
                /\ UNCHANGED now
    /\ UNCHANGED <<pc, req, device_lock, last_plot_path, data_queue, log, file, switch, inputs, budget, calc, last_holder>>

\* one send_command of _teardown_measurement
AcqTeardown(c) ==
    /\ acq[c].pc = "teardown"
    /\ LET cmd == teardown_cmds[acq[c].step]
       IN  \E fault \in LinkOutcomes :
             IF send_command(fault) = "returns"
             THEN /\ switch' = IF cmd = "SET_SWITCH_OFF" THEN 0 ELSE switch
                  /\ acq' = [acq EXCEPT ![c] =
                        IF acq[c].step = Len(teardown_cmds)
                        THEN [@ EXCEPT !.pc = "done", !.step = 0, !.td_sent = @ + 1]
                        ELSE [@ EXCEPT !.step = @ + 1, !.td_sent = @ + 1]]
                  /\ UNCHANGED budget
             ELSE /\ can_fault
                  /\ budget' = spend
                  /\ acq' = [acq EXCEPT ![c] =
                        command_death([@ EXCEPT !.td_sent = @ + 1], send_command(fault))]
                  /\ UNCHANGED switch
    /\ UNCHANGED <<pc, req, device_lock, last_plot_path, data_queue, log, file, now, inputs, calc, last_holder>>

----------------------------------------------------------------------------
(* PotentiostatController.apply_measurement                                *)

Requests ==
    [mode : ModeInputs, params_ok : BOOLEAN, duration : DurationInputs,
     sampling_interval : SamplingInputs]

\* threading.Lock: acquire succeeds only on a free lock
lock_free_always(l) == TRUE
lock_free(l) == l = None

\* Thread.join returns once the thread function has returned or raised
acq_terminated_nowait(a) == TRUE
acq_terminated(a) == a.pc \in {"done", "fatal"}
log_terminated(l) == l.pc = "stopped"

\* the locals of a joined acquisition thread are gone; how it ended, how
\* many samples it enqueued and how many teardown commands it sent stay on
\* record
joined(a) ==
    [AcqInit EXCEPT !.pc = a.pc, !.cause = a.cause, !.enqueued = a.enqueued,
                    !.td_sent = a.td_sent]

\* controller.py 321-363: mode lookup, parameter validation, waveform, path
Call(c) ==
    /\ pc[c] = "idle"
    /\ \E r \in inputs[c] :
         /\ req' = [req EXCEPT ![c] = r]
         /\ pc' = [pc EXCEPT ![c] = IF request_valid(r) THEN "ready" ELSE "raised"]
    /\ UNCHANGED <<device_lock, last_plot_path, acq, data_queue, log, file, switch, now, inputs, budget, calc, last_holder>>

\* controller.py 365: with self.device_lock
AcquireLock(c) ==
    /\ pc[c] = "ready"
    /\ lock_free(device_lock)
    /\ device_lock' = c
    /\ last_holder' = c
    /\ pc' = [pc EXCEPT ![c] = "locked"]
    /\ UNCHANGED <<req, last_plot_path, acq, data_queue, log, file, switch, now, inputs, budget, calc>>

\* controller.py 269-276: queue, logger and the two threads are created and started
StartThreads(c) ==
    /\ pc[c] = "locked"
    /\ data_queue' = [data_queue EXCEPT ![c] = <<>>]
    /\ acq' = [acq EXCEPT ![c] = [AcqInit EXCEPT !.pc = "setup", !.step = 1]]
    /\ log' = [log EXCEPT ![c] = [LogInit EXCEPT !.pc = "start"]]
    /\ pc' = [pc EXCEPT ![c] = "join_write"]
    /\ UNCHANGED <<req, device_lock, last_plot_path, file, switch, now, inputs, budget, calc, last_holder>>

\* controller.py 279: write_thread.join()
JoinWrite(c) ==
    /\ pc[c] = "join_write"
    /\ acq_terminated(acq[c])
    /\ pc' = [pc EXCEPT ![c] = "put_sentinel"]
    /\ acq' = [acq EXCEPT ![c] = joined(@)]
    /\ UNCHANGED <<req, device_lock, last_plot_path, data_queue, log, file, switch, now, inputs, budget, calc, last_holder>>

\* controller.py 281: data_queue.put(None)
PutSentinelOmitted(c) ==
    /\ pc[c] = "put_sentinel"
    /\ pc' = [pc EXCEPT ![c] = "join_save"]
    /\ UNCHANGED <<req, device_lock, last_plot_path, acq, data_queue, log, file, switch, now, inputs, budget, calc, last_holder>>
PutSentinel(c) ==
    /\ pc[c] = "put_sentinel"
    /\ data_queue' = [data_queue EXCEPT ![c] = Append(@, SentinelItem)]
    /\ pc' = [pc EXCEPT ![c] = "join_save"]
    /\ UNCHANGED <<req, device_lock, last_plot_path, acq, log, file, switch, now, inputs, budget, calc, last_holder>>

\* controller.py 282: save_thread.join()
JoinSave(c) ==
    /\ pc[c] = "join_save"
    /\ log_terminated(log[c])
    /\ pc' = [pc EXCEPT ![c] = "release"]
    /\ log' = [log EXCEPT ![c] = [LogInit EXCEPT !.pc = "stopped"]]
    /\ UNCHANGED <<req, device_lock, last_plot_path, acq, data_queue, file, switch, now, inputs, budget, calc, last_holder>>

\* the end of the with block: the lock is released
ReleaseLockBeforeJoin(c) ==
    /\ pc[c] = "join_write"
    /\ device_lock' = None
    /\ pc' = [pc EXCEPT ![c] = "set_path"]
    /\ UNCHANGED <<req, last_plot_path, acq, data_queue, log, file, switch, now, inputs, budget, calc, last_holder>>
ReleaseLock(c) ==
    /\ pc[c] = "release"
    /\ device_lock' = None
    /\ pc' = [pc EXCEPT ![c] = "set_path"]
    /\ UNCHANGED <<req, last_plot_path, acq, data_queue, log, file, switch, now, inputs, budget, calc, last_holder>>

\* controller.py 368: self.last_plot_path = filepath; the call returns
Return(c) ==
    /\ pc[c] = "set_path"
    /\ last_plot_path' = c
    /\ pc' = [pc EXCEPT ![c] = "returned"]
    /\ UNCHANGED <<req, device_lock, acq, data_queue, log, file, switch, now, inputs, budget, calc, last_holder>>

Next ==
    \E c \in Callers :
        \/ Call(c)
        \/ AcquireLock(c)
        \/ StartThreads(c)
        \/ JoinWrite(c)
        \/ PutSentinel(c)
        \/ JoinSave(c)
        \/ ReleaseLock(c)
        \/ Return(c)
        \/ AcqSetup(c)
        \/ PotLoop(c)
        \/ PotWrite(c)
        \/ Read(c)
        \/ GalSegment(c)
        \/ GalLoop(c)
        \/ OcpLoop(c)
        \/ AcqTeardown(c)
        \/ LogOpen(c)
        \/ LogGet(c)
        \/ LogFinal(c)

\* requests of the specification with two concurrent callers
ConcurrentInputs ==
    {r \in Requests : r.duration \in {0, 83} /\ r.sampling_interval = NoInterval}

\* two concurrent callers on one controller, a link with at most MaxFaults faults
Init ==
    /\ InitState
    /\ inputs = [c \in Callers |-> ConcurrentInputs]
    /\ budget = MaxFaults

Spec == Init /\ [][Next]_vars

\* requests of the single-caller specification: the potentiostatic loop
\* is run on the waveforms of at most one write chunk
LinkInputs ==
    {r \in Requests : r.duration <= 83 /\ (Upper(r.mode) = "CA" => r.duration # 60)}

\* one caller, every request, a link that may fail at every attempt
InitLink ==
    /\ InitState
    /\ inputs = [c \in Callers |-> IF c = "c1" THEN LinkInputs ELSE {}]
    /\ budget = Unlimited

SpecLink == InitLink /\ [][Next]_vars

\* a potentiostatic request whose stimulus takes more than one write, and
\* one request of each other control family
ChunkInputs ==
    {r \in Requests :
        /\ r.params_ok
        /\ r.sampling_interval = NoInterval
        /\ <<r.mode, r.duration>> \in {<<"CA", 122>>, <<"cp", 0>>, <<"OCP", 0>>}}

\* one caller, a link that may fail at every attempt
InitChunk ==
    /\ InitState
    /\ inputs = [c \in Callers |-> IF c = "c1" THEN ChunkInputs ELSE {}]
    /\ budget = Unlimited

SpecChunk == InitChunk /\ [][Next]_vars

----------------------------------------------------------------------------
(* Scheduling                                                              *)

\* the steps of the calling thread, of the acquisition thread and of the
\* logger thread of caller c
MainStep(c) ==
    \/ Call(c) \/ AcquireLock(c) \/ StartThreads(c) \/ JoinWrite(c)
    \/ PutSentinel(c) \/ JoinSave(c) \/ ReleaseLock(c) \/ Return(c)
AcqStep(c) ==
    \/ AcqSetup(c) \/ PotLoop(c) \/ PotWrite(c) \/ Read(c)
    \/ GalSegment(c) \/ GalLoop(c) \/ OcpLoop(c) \/ AcqTeardown(c)
LogStep(c) == LogOpen(c) \/ LogGet(c) \/ LogFinal(c)

\* a thread that can take a step is eventually scheduled
Fairness ==
    \A c \in Callers :
        /\ WF_vars(MainStep(c))
        /\ WF_vars(AcqStep(c))
        /\ WF_vars(LogStep(c))

\* faults of the link in the specification with fair scheduling
FairFaults == 1

\* requests of the specification with fair scheduling: caller c1 asks for one
\* technique of each control family, caller c2 for an empty potentiostatic
\* waveform
FairInputs(c) ==
    {r \in Requests :
        /\ r.params_ok
        /\ r.sampling_interval = NoInterval
        /\ IF c = "c1"
           THEN <<r.mode, r.duration>> \in {<<"CA", 60>>, <<"cp", 0>>, <<"OCP", 0>>}
           ELSE <<r.mode, r.duration>> = <<"CA", 0>>}

InitFair ==
    /\ InitState
    /\ now = MaxTime
    /\ inputs = [c \in Callers |-> FairInputs(c)]
    /\ budget = FairFaults

\* two concurrent callers, every thread scheduled fairly
SpecFair == InitFair /\ [][Next]_vars /\ Fairness

\* the requests of LinkInputs that run a waveform of at least one sample
TermInputs ==
    {r \in LinkInputs :
        /\ r.params_ok
        /\ Upper(r.mode) \in ModeName
        /\ r.sampling_interval = NoInterval
        /\ waveform(r).N >= 1}

\* one caller, a link that may fail at every attempt, a clock that has
\* passed the busy threshold
InitTerm ==
    /\ InitState
    /\ now = MaxTime
    /\ inputs = [c \in Callers |-> IF c = "c1" THEN TermInputs ELSE {}]
    /\ budget = Unlimited

\* the acquisition threads are scheduled fairly
AcqFairness == \A c \in Callers : WF_vars(AcqStep(c))

SpecTerm == InitTerm /\ [][Next]_vars /\ AcqFairness

----------------------------------------------------------------------------
(* _run_measurement with an arbitrary write_func                           *)

\* write_func puts one more batch of rows on the queue
Feed(c) ==
    /\ acq[c].pc = "feed"
    /\ acq[c].step < MaxBatches
    /\ \E n \in FeedSizes :
         /\ acq[c].enqueued + n <= MaxFeed
         /\ data_queue' = [data_queue EXCEPT ![c] =
                Append(@, Batch([k \in 1..n |-> acq[c].enqueued + k - 1]))]
         /\ acq' = [acq EXCEPT ![c].enqueued = @ + n, ![c].step = @ + 1]
    /\ UNCHANGED <<pc, req, device_lock, last_plot_path, log, file, switch, now, inputs, budget, calc, last_holder>>

\* write_func returns
FeedEnd(c) ==
    /\ acq[c].pc = "feed"
    /\ acq' = [acq EXCEPT ![c].pc = "done", ![c].step = 0]
    /\ UNCHANGED <<pc, req, device_lock, last_plot_path, data_queue, log, file, switch, now, inputs, budget, calc, last_holder>>

NextLog ==
    \E c \in Callers :
        \/ Feed(c)
        \/ FeedEnd(c)
        \/ JoinWrite(c)
        \/ PutSentinel(c)
        \/ LogOpen(c)
        \/ LogGet(c)
        \/ LogFinal(c)

LogInputs ==
    [mode : {"CP"}, params_ok : {TRUE}, duration : LogDurations,
     sampling_interval : LogSamplings]

\* _run_measurement has started both threads for a waveform and a sampling
\* interval of LogInputs; the acquisition thread runs some write_func
InitLog ==
    /\ \E r \in LogInputs :
         req = [c \in Callers |-> IF c = "c1" THEN r ELSE NoReq]
    /\ pc = [c \in Callers |-> IF c = "c1" THEN "join_write" ELSE "idle"]
    /\ device_lock = "c1"
    /\ last_plot_path = None
    /\ acq = [c \in Callers |-> IF c = "c1" THEN [AcqInit EXCEPT !.pc = "feed"] ELSE AcqInit]
    /\ data_queue = [c \in Callers |-> <<>>]
    /\ log = [c \in Callers |-> IF c = "c1" THEN [LogInit EXCEPT !.pc = "start"] ELSE LogInit]
    /\ file = [c \in Callers |-> FileInit]
    /\ switch = 0
    /\ now = BUSSY_DLAY_NS
    /\ inputs = [c \in Callers |-> {}]
    /\ budget = 0
    /\ calc = NoCall
    /\ last_holder = "c1"

SpecLog == InitLog /\ [][NextLog]_vars

----------------------------------------------------------------------------
(* Waveform generators                                                     *)

\* np.full(n, v), np.arange(n), np.repeat(values, n), np.concatenate(segs)
np_full(n, v) == [k \in 1..n |-> v]
np_arange_inclusive(n) == [k \in 1..(n + 1) |-> k - 1]
np_arange(n) == [k \in 1..n |-> k - 1]
np_repeat(values, n) == [k \in 1..(Len(values) * n) |-> values[((k - 1) \div n) + 1]]
RECURSIVE np_concatenate(_)
np_concatenate(segs) ==
    IF segs = <<>> THEN <<>> ELSE Head(segs) \o np_concatenate(Tail(segs))

\* np.linspace(start, stop, num): the k-th value is start + (k-1)(stop-start)/(num-1),
\* kept as numerator n over denominator d
np_linspace(start, stop, num) ==
    [k \in 1..num |->
        IF num = 1 THEN [n |-> start, d |-> 1]
        ELSE [n |-> start * (num - k) + stop * (k - 1), d |-> num - 1]]

level(v) == [n |-> v, d |-> 1]

RECURSIVE Sum(_)
Sum(xs) == IF xs = <<>> THEN 0 ELSE Head(xs) + Sum(Tail(xs))

Abs(x) == IF x < 0 THEN 0 - x ELSE x

\* a returned waveform model: the names of its fields and its arrays
\* (stimulus is applied_potential or applied_current, label is cycle or
\* step; an array the model does not have is empty)
Output(fields, stimulus, time, label, length_steps) ==
    [raised |-> FALSE, fields |-> fields, stimulus |-> stimulus, time |-> time,
     label |-> label, length_steps |-> length_steps]

\* np.concatenate of an empty list raises ValueError
Raised == [raised |-> TRUE, fields |-> {}, stimulus |-> <<>>, time |-> <<>>,
           label |-> <<>>, length_steps |-> <<>>]

\* the fields of the output models of waveform_outputs.py
PotenOutput == {"time", "applied_potential"}
GalvanoOutput == {"time", "applied_current", "current_steps", "duration_steps", "length_steps"}

constant_waveform(potential, duration) ==
    LET length == num_points(duration)
    IN  Output(PotenOutput, np_full(length, level(potential)), np_arange(length), <<>>, <<>>)

potential_steps(potentials, step_duration) ==
    LET length_step == num_points(step_duration)
        applied_potential ==
            np_concatenate([i \in 1..Len(potentials) |->
                               np_full(length_step, level(potentials[i]))])
        step == np_concatenate([i \in 1..Len(potentials) |-> np_full(length_step, i - 1)])
    IN  IF potentials = <<>> THEN Raised
        ELSE Output(PotenOutput \cup {"step"}, applied_potential,
                    np_arange(Len(applied_potential)), step, <<>>)

\* duration = abs(end - start) / scan_rate, length = int(duration / POINT_INTERVAL)
linear_sweep(start, end, scan_rate) ==
    LET length == Abs(end - start) \div scan_rate
    IN  Output(PotenOutput, np_linspace(start, end, length), np_arange(length), <<>>, <<>>)

cyclic_voltammetry(start, vertex1, vertex2, end, scan_rate, cycles) ==
    LET seg1 == linear_sweep(start, vertex1, scan_rate).stimulus
        seg2 == linear_sweep(vertex1, vertex2, scan_rate).stimulus
        seg_up == linear_sweep(vertex2, vertex1, scan_rate).stimulus
        seg_down == linear_sweep(vertex1, vertex2, scan_rate).stimulus
        middle == [n \in 2..cycles |-> seg_up \o seg_down]
        middle_cycle == [n \in 2..cycles |-> np_full(Len(seg_up) + Len(seg_down), n)]
        seg_extra == IF end # vertex2
                     THEN linear_sweep(vertex2, end, scan_rate).stimulus
                     ELSE <<>>
        applied_potential ==
            seg1 \o seg2
                \o np_concatenate([k \in 1..Max(cycles - 1, 0) |-> middle[k + 1]])
                \o seg_extra
        cycle ==
            np_full(Len(seg1) + Len(seg2), 1)
                \o np_concatenate([k \in 1..Max(cycles - 1, 0) |-> middle_cycle[k + 1]])
                \o np_full(Len(seg_extra), cycles)
    IN  Output(PotenOutput \cup {"cycle"}, applied_potential,
               np_arange(Len(applied_potential)), cycle, <<>>)

single_point(current, duration) ==
    LET n == num_points(duration)
    IN  Output(GalvanoOutput, np_full(n, level(current)), np_arange(n), <<>>, <<n>>)

current_steps(currents, step_duration) ==
    LET num_points_per_step == num_points(step_duration)
        applied_current ==
            np_repeat([i \in 1..Len(currents) |-> level(currents[i])], num_points_per_step)
    IN  Output(GalvanoOutput, applied_current, np_arange(Len(applied_current)), <<>>,
               np_full(Len(currents), num_points_per_step))

linear_galvanostatic_sweep(start, end, num_steps, step_duration) ==
    LET currents == np_linspace(start, end, num_steps)
        points_per_step == num_points(step_duration)
        applied_current == np_repeat(currents, points_per_step)
    IN  Output(GalvanoOutput, applied_current, np_arange(Len(applied_current)), <<>>,
               np_full(num_steps, points_per_step))

\* end is [given |-> FALSE] for None
NoEnd == [given |-> FALSE, value |-> 0]
cyclic_galvanostatic(start, vertex1, vertex2, num_steps, step_duration, cycles, end) ==
    LET points_per_step == num_points(step_duration)
        segment(a, b) == np_repeat(np_linspace(a, b, num_steps), points_per_step)
        legs == <<segment(start, vertex1), segment(vertex1, vertex2), segment(vertex2, start)>>
        final == end.given /\ end.value # start
        segments ==
            [k \in 1..(3 * cycles) |-> legs[((k - 1) % 3) + 1]]
                \o (IF final THEN <<segment(start, end.value)>> ELSE <<>>)
        cycle_segments ==
            [k \in 1..(3 * cycles) |->
                np_full(Len(legs[((k - 1) % 3) + 1]), ((k - 1) \div 3) + 1)]
                \o (IF final
                    THEN <<np_full(Len(segment(start, end.value)), cycles + 1)>>
                    ELSE <<>>)
        applied_current == np_concatenate(segments)
    IN  IF segments = <<>> THEN Raised
        ELSE Output(GalvanoOutput \cup {"cycle"}, applied_current,
                    np_arange(Len(applied_current)), np_concatenate(cycle_segments),
                    np_full(Len(segments) * num_steps, points_per_step))

ocp_waveform(duration) ==
    Output({"time"}, <<>>, np_arange(num_points(duration)), <<>>, <<>>)

\* the parameter mappings that pass the schema of each technique
LevelLists == {<<>>} \cup {<<a>> : a \in Levels} \cup {<<a, b>> : a, b \in Levels}
ParamsOf(mode) ==
    CASE mode = "CA" -> [potential : Levels, duration : WaveDurations]
      [] mode = "LSV" -> [start : Levels, end : Levels, scan_rate : ScanRates]
      [] mode = "CV" -> [start : Levels, vertex1 : Levels, vertex2 : Levels, end : Levels,
                         scan_rate : ScanRates, cycles : 0..MaxCycles]
      [] mode = "PSTEP" -> [potentials : LevelLists, step_duration : WaveDurations]
      [] mode = "CP" -> [current : Levels, duration : WaveDurations]
      [] mode = "GS" -> [start : Levels, end : Levels, num_steps : 0..MaxSteps,
                         step_duration : WaveDurations]
      [] mode = "GCV" -> [start : Levels, vertex1 : Levels, vertex2 : Levels,
                          end : {NoEnd} \cup [given : {TRUE}, value : Levels], num_steps : 0..MaxSteps,
                          step_duration : WaveDurations, cycles : 0..MaxCycles]
      [] mode = "STEPSEQ" -> [currents : LevelLists, step_duration : WaveDurations]
      [] OTHER -> [duration : WaveDurations]

\* mode_config.waveform_func(**param_obj.model_dump())
waveform_func(mode, p) ==
    CASE mode = "CA" -> constant_waveform(p.potential, p.duration)
      [] mode = "LSV" -> linear_sweep(p.start, p.end, p.scan_rate)
      [] mode = "CV" -> cyclic_voltammetry(p.start, p.vertex1, p.vertex2, p.end,
                                            p.scan_rate, p.cycles)
      [] mode = "PSTEP" -> potential_steps(p.potentials, p.step_duration)
      [] mode = "CP" -> single_point(p.current, p.duration)
      [] mode = "GS" -> linear_galvanostatic_sweep(p.start, p.end, p.num_steps,
                                                    p.step_duration)
      [] mode = "GCV" -> cyclic_galvanostatic(p.start, p.vertex1, p.vertex2, p.num_steps,
                                               p.step_duration, p.cycles, p.end)
      [] mode = "STEPSEQ" -> current_steps(p.currents, p.step_duration)
      [] OTHER -> ocp_waveform(p.duration)

----------------------------------------------------------------------------
(* Float packing                                                           *)

\* sys.byteorder: numpy views use the byte order of the platform
ByteOrders == {"little", "big"}

\* a float32 value is its 32-bit pattern, kept as its four bytes from the
\* least significant one
bytes_of(x) == <<x[1], x[2], x[3], x[4]>>

Reverse(xs) == [k \in 1..Len(xs) |-> xs[Len(xs) + 1 - k]]

\* np.array(values, dtype=np.float32).tobytes(order="C")
float32_tobytes(values, order) ==
    np_concatenate([k \in 1..Len(values) |->
        IF order = "little" THEN bytes_of(values[k]) ELSE Reverse(bytes_of(values[k]))])

\* np.frombuffer(bytes, np.uint16)
uint16_frombuffer(bytes, order) ==
    [k \in 1..(Len(bytes) \div 2) |->
        IF order = "little" THEN bytes[2 * k - 1] + 256 * bytes[2 * k]
        ELSE 256 * bytes[2 * k - 1] + bytes[2 * k]]

\* np.array(rd_data).astype(np.uint16).tobytes()
uint16_tobytes(words, order) ==
    np_concatenate([k \in 1..Len(words) |->
        LET w == words[k] % 65536
        IN  IF order = "little" THEN <<w % 256, w \div 256>> ELSE <<w \div 256, w % 256>>])

\* np.frombuffer(bytes, np.float32)
float32_frombuffer_words_swapped(bytes, order) ==
    [k \in 1..(Len(bytes) \div 4) |->
        LET b == [j \in 1..4 |-> bytes[4 * (k - 1) + j]]
        IN  IF order = "little"
            THEN <<b[3], b[4], b[1], b[2]>>
            ELSE <<b[2], b[1], b[4], b[3]>>]
float32_frombuffer(bytes, order) ==
    [k \in 1..(Len(bytes) \div 4) |->
        LET b == [j \in 1..4 |-> bytes[4 * (k - 1) + j]]
        IN  IF order = "little"
            THEN <<b[1], b[2], b[3], b[4]>>
            ELSE <<b[4], b[3], b[2], b[1]>>]

\* controller.py 486-492 and 579-580: the words written for float32 values
float_to_uint16_list(values, order) ==
    uint16_frombuffer(float32_tobytes(values, order), order)

\* np.reshape(rd_list, (-1, 2)): rows of two values
reshape_pairs(xs) == [k \in 1..(Len(xs) \div 2) |-> <<xs[2 * k - 1], xs[2 * k]>>]

convert_uint16_to_float32(rd_data, order) ==
    reshape_pairs(float32_frombuffer(uint16_tobytes(rd_data, order), order))

BitPatterns == {<<a, b, c, d>> : a, b, c, d \in ByteInputs}

\* second value of a packed pair: 1.0, the smallest subnormal, -0.0
PairedPatterns == {<<0, 0, 128, 63>>, <<1, 0, 0, 0>>, <<0, 0, 0, 128>>}

----------------------------------------------------------------------------
(* Calls of the pure functions                                             *)

\* a technique's generator is called with parameters that pass its schema
GenerateWaveform ==
    /\ calc = NoCall
    /\ \E mode \in ModeName : \E p \in ParamsOf(mode) :
         calc' = [op |-> "waveform", mode |-> mode, params |-> p,
                  out |-> waveform_func(mode, p)]
    /\ UNCHANGED <<pc, req, device_lock, last_plot_path, acq, data_queue, log, file, switch, now, inputs, budget, last_holder>>

\* two float32 values are packed into words and the words are decoded
PackAndDecode ==
    /\ calc = NoCall
    /\ \E x \in BitPatterns : \E y \in PairedPatterns : \E order \in ByteOrders :
         LET words == float_to_uint16_list(<<x, y>>, order)
         IN  calc' = [op |-> "pack", values |-> <<x, y>>, order |-> order, words |-> words,
                      decoded |-> convert_uint16_to_float32(words, order)]
    /\ UNCHANGED <<pc, req, device_lock, last_plot_path, acq, data_queue, log, file, switch, now, inputs, budget, last_holder>>

\* DataLogger(queue, waveform, filepath, sampling_interval)
ConstructLogger ==
    /\ calc = NoCall
    /\ \E si \in LoggerSamplings :
         calc' = [op |-> "logger", sampling_interval |-> si,
                  reducing_factor |-> reducing_factor(si)]
    /\ UNCHANGED <<pc, req, device_lock, last_plot_path, acq, data_queue, log, file, switch, now, inputs, budget, last_holder>>

\* is_pid_active(mode) is called with a mode code
IsPidActive ==
    /\ calc = NoCall
    /\ \E mode \in ModeName \cup ModeInputs :
         calc' = [op |-> "pid", mode |-> mode, result |-> is_pid_active(mode)]
    /\ UNCHANGED <<pc, req, device_lock, last_plot_path, acq, data_queue, log, file, switch, now, inputs, budget, last_holder>>

NextCalc ==
    \/ GenerateWaveform
    \/ PackAndDecode
    \/ ConstructLogger
    \/ IsPidActive

InitCalc ==
    /\ InitState
    /\ inputs = [c \in Callers |-> {}]
    /\ budget = 0

SpecCalc == InitCalc /\ [][NextCalc]_vars

----------------------------------------------------------------------------
(* Properties                                                              *)

Range(f) == {f[k] : k \in DOMAIN f}

DataRows(c) == {k \in 1..Len(file[c].rows) : file[c].rows[k].kind = "data"}

\* the threads of c's measurement exist and have not both ended
ThreadsAlive(c) ==
    \/ acq[c].pc \notin {"idle", "done", "fatal"}
    \/ log[c].pc \in {"start", "run", "final"}

\* c is between the start of its threads and the release of the lock
Measuring(c) ==
    \/ pc[c] \in {"join_write", "put_sentinel", "join_save", "release"}
    \/ ThreadsAlive(c)

\* C1: at most one measurement is between the start of Setup and the end of
\* Teardown at any time; the threads of a call run only while that call holds
\* the device lock, so a second call's threads are not started before the
\* first call has joined both of its threads and released the lock.
C1_OneMeasurementAtATime ==
    \A c \in Callers :
        Measuring(c) =>
            /\ device_lock = c
            /\ \A d \in Callers \ {c} : ~Measuring(d)

\* a measurement is running while the other caller is blocked on the lock
C1_Witness ==
    \E c \in Callers : \E d \in Callers \ {c} :
        /\ acq[c].pc = "read" /\ log[c].pc = "run"
        /\ pc[d] = "ready"

\* C2: when a channel's error counter exceeds its ceiling, the
\* apply_measurement call that started the measurement does not return
\* normally (it ends with an error visible to its caller).
C2_ExhaustionReachesCaller ==
    \A c \in Callers :
        acq[c].cause = "link_exhausted" => pc[c] # "returned"

\* number of data rows of c's file to which sample s contributed
RowsWith(c, s) ==
    Cardinality({k \in DataRows(c) : s \in Range(file[c].rows[k].samples)})

\* C3: once the logger has stopped, every sample enqueued before the
\* sentinel has contributed to exactly one CSV data row.
C3_NoSampleDropped ==
    \A c \in Callers :
        file[c].closed =>
            \A s \in 0..(acq[c].enqueued - 1) : RowsWith(c, s) = 1

CeilDiv(a, b) == (a + b - 1) \div b

\* C4: with reducing_factor f >= 2, once the sentinel has been processed the
\* file holds ceil(min(T, N) / f) data rows for T received samples and
\* waveform length N.
C4_RowCountWhenReducing ==
    \A c \in Callers :
        LET f == reducing_factor(req[c].sampling_interval)
            N == waveform(req[c]).N
            T == acq[c].enqueued
        IN  (file[c].closed /\ f >= 2) =>
                Cardinality(DataRows(c)) = CeilDiv(Min(T, N), f)

\* the cadenced cycle of c has ended the thread on a failed read or write
CadenceFatal(c) ==
    /\ pc[c] = "join_write"
    /\ acq[c].pc = "fatal"
    /\ acq[c].cause \in {"link_exhausted", "write_fault"}

\* C5: on a link on which every attempt fails, the measurement ends with a
\* fatal error exactly on the 17th failed read attempt or the 11th failed
\* write attempt, never earlier and never later, in every control family.
C5_FatalExactlyAboveCeiling ==
    \A c \in Callers :
        (pc[c] = "join_write" /\ ~acq[c].ever_ok
            /\ (acq[c].rd_fails > 0 \/ acq[c].wr_fails > 0)) =>
            /\ acq[c].rd_fails <= RD_ERR_LIMIT + 1
            /\ acq[c].wr_fails <= WR_ERR_LIMIT + 1
            /\ CadenceFatal(c) <=>
                  (acq[c].rd_fails = RD_ERR_LIMIT + 1 \/ acq[c].wr_fails = WR_ERR_LIMIT + 1)

\* this step issues a read (write) attempt of c on the transport
ReadIssued(c) ==
    /\ acq[c].pc = "read"
    /\ \/ acq'[c].enqueued # acq[c].enqueued
       \/ acq'[c].rd_fails = acq[c].rd_fails + 1
WriteIssued(c) ==
    /\ acq[c].pc = "write"
    /\ \/ acq'[c].wr_tx_reg # acq[c].wr_tx_reg
       \/ acq'[c].wr_fails = acq[c].wr_fails + 1

\* C6 as stated: after a failed read (write) attempt at time t, no further
\* read (write) attempt is issued until more than the busy threshold has
\* elapsed since t.
C6_BusyDelayGating ==
    [][\A c \in Callers :
          /\ (ReadIssued(c) /\ acq[c].rd_fails > 0) =>
                 now - acq[c].rd_dly_st > BUSSY_DLAY_NS
          /\ (WriteIssued(c) /\ acq[c].wr_fails > 0) =>
                 now - acq[c].wr_dly_st > BUSSY_DLAY_NS]_vars

\* C6 as amended: the time of the last failure plays no part in the gate; a
\* read (write) attempt is issued exactly when the clock value st read at the
\* start of the iteration exceeds the busy threshold, so the retry after a
\* failure is issued without waiting.
C6_GateIgnoresLastFailure ==
    [][\A c \in Callers :
          /\ (acq[c].pc = "read" /\ acq'[c] # acq[c]) =>
                 (ReadIssued(c) <=> acq[c].st > BUSSY_DLAY_NS)
          /\ (acq[c].pc = "write" /\ acq'[c] # acq[c]) =>
                 (WriteIssued(c) <=> acq[c].st > BUSSY_DLAY_NS)]_vars

\* a retry is due inside the busy window of the failure before it
C6_Witness ==
    \E c \in Callers :
        /\ acq[c].pc = "read"
        /\ acq[c].rd_fails > 0
        /\ acq[c].st > BUSSY_DLAY_NS
        /\ now - acq[c].rd_dly_st <= BUSSY_DLAY_NS

\* the request fails the mode lookup or the parameter schema
Rejected(r) == Upper(r.mode) \notin ModeName \/ ~r.params_ok

\* C7: a call whose mode code is not in the registry or whose params fail
\* the schema raises before it acquires the device lock, starts a thread,
\* creates the output file or issues a device command, and leaves
\* last_plot_path unchanged.
C7_RejectedBeforeAnyEffect ==
    \A c \in Callers :
        (pc[c] # "idle" /\ Rejected(req[c])) =>
            /\ pc[c] = "raised"
            /\ device_lock # c
            /\ acq[c].pc = "idle"
            /\ log[c].pc = "idle"
            /\ ~file[c].exists
            /\ last_plot_path # c

\* a call was rejected while the other caller's measurement is running
C7_Witness ==
    \E c \in Callers : \E d \in Callers \ {c} :
        /\ pc[c] = "raised" /\ Rejected(req[c])
        /\ acq[d].pc = "read"

\* C8: a failed read or write attempt of the cadenced cycle ends the
\* measurement only when that channel's count of consecutive failures
\* exceeds its ceiling (write 10, read 16), in every control family.
C8_FatalOnlyAboveCeiling ==
    \A c \in Callers :
        CadenceFatal(c) =>
            \/ acq[c].rd_fails > RD_ERR_LIMIT
            \/ acq[c].wr_fails > WR_ERR_LIMIT

\* C9: the CSV preserves enqueue order: a sample of a later row was enqueued
\* after every sample of an earlier row.
C9_RowsInEnqueueOrder ==
    \A c \in Callers :
        \A k, l \in DataRows(c) :
            k < l =>
                \A a \in Range(file[c].rows[k].samples) :
                    \A b \in Range(file[c].rows[l].samples) : a < b

\* rows have been written while two batches wait in the channel
C9_Witness ==
    \E c \in Callers :
        /\ Cardinality(DataRows(c)) >= 2
        /\ Len(data_queue[c]) >= 2
        /\ \A k \in 1..Len(data_queue[c]) : data_queue[c][k].kind = "batch"

\* sentinels put on c's channel so far
SentinelsPut(c) ==
    Cardinality({k \in 1..Len(data_queue[c]) : data_queue[c][k].kind = "None"})
        + (IF log[c].pc \in {"final", "stopped"} THEN 1 ELSE 0)

BatchesPut(c) == acq[c].enqueued \div pairs_of_words(N_REGISTER)

\* C10: exactly one sentinel is put per measurement and only after the
\* acquisition thread has terminated; no batch follows the sentinel on the
\* channel, and the logger has consumed every enqueued batch when it stops.
C10_SentinelLast ==
    \A c \in Callers :
        /\ SentinelsPut(c) <= 1
        /\ pc[c] \in {"join_save", "release", "set_path", "returned"} => SentinelsPut(c) = 1
        /\ SentinelsPut(c) = 1 => acq[c].pc \in {"done", "fatal"}
        /\ \A k \in 1..Len(data_queue[c]) :
               data_queue[c][k].kind = "None" => k = Len(data_queue[c])
        /\ (pc[c] = "join_save" /\ log[c].pc = "stopped") =>
               /\ data_queue[c] = <<>>
               /\ log[c].got = BatchesPut(c)

\* the logger has stopped after consuming several batches, the last of them
\* taken from the channel together with the sentinel waiting behind it
C10_Witness ==
    \E c \in Callers :
        /\ pc[c] = "join_save" /\ log[c].pc = "stopped"
        /\ log[c].got >= 2

\* causes of death that are failures of the link to the device
LinkErrors == {"link_exhausted", "write_fault", "command_fault", "system_exit"}

\* C11: whenever the cadenced cycle of a measurement ends without a fatal
\* link error, both commands of the teardown sequence are sent, once each
\* and after the last read attempt, and no device operation of that
\* measurement follows them.
C11_TeardownOnceAfterCycle ==
    \A c \in Callers :
        /\ acq[c].td_sent <= Len(teardown_cmds)
        /\ acq[c].td_sent > 0 => acq[c].pc \in {"teardown", "done", "fatal"}
        /\ (acq[c].pc \in {"done", "fatal"} /\ acq[c].cause \notin LinkErrors) =>
               /\ acq[c].pc = "done"
               /\ acq[c].td_sent = Len(teardown_cmds)

\* C12: when a channel's error counter exceeds its ceiling the acquisition
\* thread ends without sending SET_SWITCH 0 or TEST_STOP, and the output
\* switch asserted in Setup is still asserted when the device lock is
\* released.
C12_SwitchLeftOnAfterExhaustion ==
    \A c \in Callers :
        (acq[c].cause = "link_exhausted"
            /\ pc[c] \in {"join_write", "put_sentinel", "join_save", "release", "set_path"}) =>
            /\ acq[c].pc = "fatal"
            /\ acq[c].td_sent = 0
            /\ switch = 1

\* the lock has just been released after a measurement that ended on the
\* read ceiling
C12_Witness ==
    \E c \in Callers :
        /\ pc[c] = "set_path"
        /\ device_lock = None
        /\ acq[c].cause = "link_exhausted"
        /\ switch = 1

\* C16: a transport fault in a driver operation reaches the caller of that
\* operation as an error it can handle: no send_command ends the calling
\* thread through the interpreter's exit().
C16_FaultReachesCallerAsError ==
    \A c \in Callers : acq[c].cause # "system_exit"

HeaderRows(c) == {k \in 1..Len(file[c].rows) : file[c].rows[k].kind = "header"}

\* C13: the CSV header row is written exactly once per output file and
\* before the first data row.
C13_HeaderOnceAndFirst ==
    \A c \in Callers :
        /\ Cardinality(HeaderRows(c)) <= 1
        /\ DataRows(c) # {} => file[c].rows[1].kind = "header"
        /\ file[c].closed => Cardinality(HeaderRows(c)) = 1

\* C14: the row written for a group whose first sample is the j-th sample
\* received by the logger carries Time = waveform.time[j], and its other
\* metadata columns are taken from the waveform indices j .. j+size-1.
C14_MetadataAlignedToSamples ==
    \A c \in Callers :
        \A k \in DataRows(c) :
            /\ file[c].rows[k].time = file[c].rows[k].samples[1]
            /\ file[c].rows[k].meta = file[c].rows[k].samples

\* C15: the Time column of the CSV is non-decreasing from each data row to
\* the next.
C15_TimeNonDecreasing ==
    \A c \in Callers :
        \A k, l \in DataRows(c) :
            k < l => file[c].rows[k].time <= file[c].rows[l].time

\* a closed file written in several flushes with a reducing factor, from
\* more samples than the waveform has points
C15_Witness ==
    \E c \in Callers :
        /\ file[c].closed
        /\ reducing_factor(req[c].sampling_interval) >= 2
        /\ acq[c].enqueued > waveform(req[c]).N
        /\ waveform(req[c]).N > pairs_of_words(N_REGISTER)
        /\ log[c].got >= 3
        /\ Cardinality(DataRows(c)) >= 2

\* the waveform returned by the generator call on record
Returned == calc.op = "waveform" /\ ~calc.out.raised

\* C17: for every technique's generator the returned waveform has
\* len(stimulus) = len(time), a cycle/step array (when present) of the same
\* length, and for the galvanostatic generators sum(length_steps) =
\* len(applied_current).
C17_WaveformLengthsAgree ==
    Returned =>
        /\ calc.out.fields \cap {"applied_potential", "applied_current"} # {} =>
               Len(calc.out.stimulus) = Len(calc.out.time)
        /\ calc.out.fields \cap {"cycle", "step"} # {} =>
               Len(calc.out.label) = Len(calc.out.time)
        /\ mode_type(calc.mode) = "GAL" =>
               /\ "length_steps" \in calc.out.fields
               /\ Sum(calc.out.length_steps) = Len(calc.out.stimulus)

\* a cyclic galvanostatic waveform of two cycles and a final segment
C17_Witness ==
    /\ Returned
    /\ calc.mode = "GCV"
    /\ calc.params.cycles = 2
    /\ calc.params.end.given /\ calc.params.end.value # calc.params.start
    /\ Len(calc.out.length_steps) = 7 * calc.params.num_steps
    /\ Len(calc.out.time) >= 14

\* the samples of the closing leg of a cyclic voltammetry waveform
ClosingLeg(p) == linear_sweep(p.vertex2, p.end, p.scan_rate).stimulus

\* C18: for cyclic_voltammetry with cycles = n >= 1 the cycle label takes
\* exactly the values 1..n on the cycle segments, and when end differs from
\* vertex2 the samples of the closing leg carry one more label, distinct
\* from those (n + 1 distinct labels in total).  Stated for waveforms in
\* which every cycle and the closing leg have at least one sample.
C18_ClosingLegOwnLabel ==
    (Returned /\ calc.mode = "CV" /\ calc.params.cycles >= 1
        /\ calc.params.vertex1 # calc.params.vertex2
        /\ Abs(calc.params.vertex1 - calc.params.vertex2) >= calc.params.scan_rate) =>
        LET p == calc.params
            cycle == calc.out.label
            closing == IF p.end # p.vertex2 THEN Len(ClosingLeg(p)) ELSE 0
            on_cycles == {cycle[k] : k \in 1..(Len(cycle) - closing)}
            on_closing == {cycle[k] : k \in (Len(cycle) - closing + 1)..Len(cycle)}
        IN  /\ on_cycles = 1..p.cycles
            /\ closing > 0 =>
                   /\ Cardinality(on_closing) = 1
                   /\ on_closing \cap on_cycles = {}
                   /\ Cardinality(Range(cycle)) = p.cycles + 1

\* C19: packing float32 values into 16-bit words and decoding the word
\* pairs with convert_uint16_to_float32 gives back the same 32 bits, in the
\* same word order, on either byte order of the platform.
C19_PackDecodeRoundTrip ==
    calc.op = "pack" =>
        /\ Len(calc.words) = WORDS_PER_FLOAT * Len(calc.values)
        /\ calc.decoded = <<calc.values>>

\* a pattern whose two words and whose bytes within each word differ
C19_Witness ==
    /\ calc.op = "pack"
    /\ calc.order = "big"
    /\ calc.words[1] # calc.words[2]
    /\ calc.words[1] % 256 # calc.words[1] \div 256
    /\ calc.values[1][4] >= 128
    /\ calc.decoded = <<calc.values>>

\* C20: for every requested sampling_interval the reducing_factor is an
\* integer >= 1, and a sampling_interval below POINT_INTERVAL gives
\* reducing_factor = 1.
C20_ReducingFactorAtLeastOne ==
    calc.op = "logger" =>
        /\ calc.reducing_factor \in Nat
        /\ calc.reducing_factor >= 1
        /\ (calc.sampling_interval # NoInterval /\ calc.sampling_interval < 2) =>
               calc.reducing_factor = 1

\* a logger constructed with a sampling interval of half a POINT_INTERVAL
C20_Witness ==
    /\ calc.op = "logger"
    /\ calc.sampling_interval = 1
    /\ calc.reducing_factor = 1

\* C21: is_pid_active(mode) returns true for exactly the galvanostatic modes
\* (CP, GS, GCV, STEPSEQ), false for the potentiostatic modes and OCP, and
\* raises the unknown-mode error listing the valid codes for any other code.
C21_PidActiveByFamily ==
    calc.op = "pid" =>
        IF Upper(calc.mode) \in ModeName
        THEN /\ calc.result.raised = "none"
             /\ calc.result.value <=> mode_type(Upper(calc.mode)) = "GAL"
        ELSE /\ calc.result.raised = "ValueError"
             /\ calc.result.listed = ModeName

\* the segments of c's galvanostatic loop that have ended
SegmentsDone(c) == SubSeq(waveform(req[c]).length_steps, 1, acq[c].seg - 1)

\* C22: in the galvanostatic loop the target of segment i + 1 is written
\* only after at least L_i samples have been collected for segment i,
\* counted from that segment's start; hence at least L_1 + ... + L_i samples
\* have been enqueued when segment i has ended, and at least the sum of all
\* segment lengths at Teardown.
C22_SegmentSamplesCollected ==
    \A c \in Callers :
        (family(c) = "GAL" /\ acq[c].pc \in {"seg", "loop", "read", "teardown"}) =>
            acq[c].enqueued >= Sum(SegmentsDone(c))

\* C23: the potentiostatic loop reaches Teardown only in a state where all
\* stimulus words have been sent, at least 3 post-write read rounds have
\* been performed, and words_read >= 2 * words_written.
C23_PotTeardownAfterDrain ==
    \A c \in Callers :
        (family(c) = "POT" /\ acq[c].pc = "teardown") =>
            /\ acq[c].i >= WORDS_PER_FLOAT * waveform(req[c]).N
            /\ acq[c].post_read_attempts >= POST_READ_ATTEMPTS
            /\ acq[c].rd_tx_reg >= 2 * acq[c].wr_tx_reg

\* Teardown is reached after more than 3 post-write rounds: failed reads
\* left the drain ratio below 1 when the third round ended
C23_Witness ==
    \E c \in Callers :
        /\ family(c) = "POT" /\ acq[c].pc = "teardown"
        /\ acq[c].post_read_attempts > POST_READ_ATTEMPTS
        /\ acq[c].rd_tx_reg >= 2 * acq[c].wr_tx_reg

\* C24: every iteration of the potentiostatic loop makes exactly two read
\* attempts (calls of _read_operation), both after its write attempt if it
\* has one; an iteration whose write goes out on the link puts exactly two
\* reads on the link, whether the write and the reads succeed or fail, short
\* of a fatal error.
C24_TwoReadsPerIteration ==
    \A c \in Callers :
        family(c) = "POT" =>
            /\ acq[c].pc = "write" => (acq[c].rd_calls = 0 /\ acq[c].rd_att = 0)
            /\ acq[c].pc = "read" => acq[c].rd_calls = 2 - acq[c].rd_k
            /\ (acq[c].pc = "loop" /\ acq[c].st > 0) =>
                  /\ acq[c].rd_calls = 2
                  /\ acq[c].wr_att = 1 => acq[c].rd_att = 2
            /\ acq[c].rd_att <= acq[c].rd_calls

\* an iteration has ended in which the write failed and the second read
\* failed: both reads were issued
C24_Witness ==
    \E c \in Callers :
        /\ family(c) = "POT" /\ acq[c].pc = "loop"
        /\ acq[c].wr_att = 1 /\ acq[c].wr_fails > 0
        /\ acq[c].rd_att = 2 /\ acq[c].rd_fails > 0

\* C25: the open-circuit loop stops reading as soon as 2 * len(time)
\* sample-halves have been collected, each decoded (current, potential)
\* pair counting as two halves: at Teardown the number of enqueued pairs is
\* at least len(time) and exceeds it by less than one read batch.
C25_OcpStopsAtWaveformLength ==
    \A c \in Callers :
        (family(c) = "OCP" /\ acq[c].pc = "teardown") =>
            /\ acq[c].enqueued >= waveform(req[c]).N
            /\ acq[c].enqueued - waveform(req[c]).N < pairs_of_words(N_REGISTER)

\* the state of the acquisition state machine that a thread position is in
Phase(p) == IF p \in {"seg", "loop", "write", "read"} THEN "cadence" ELSE p

\* the steps of Idle -> Setup -> Cadence -> Teardown -> Done; a new run
\* starts from Idle or from the terminal state of the run before it
PhaseSteps ==
    {<<"idle", "setup">>, <<"done", "setup">>, <<"fatal", "setup">>,
     <<"setup", "cadence">>, <<"cadence", "teardown">>, <<"teardown", "done">>}

\* C26: every acquisition run follows Idle -> Setup -> Cadence -> Teardown
\* -> Done, and its only other terminal state, Fatal, is entered only from
\* Cadence and only when a channel's error counter has exceeded its ceiling
\* (write 10, read 16).
C26_AcquisitionStateMachine ==
    [][\A c \in Callers :
          Phase(acq'[c].pc) # Phase(acq[c].pc) =>
              IF acq'[c].pc = "fatal"
              THEN /\ Phase(acq[c].pc) = "cadence"
                   /\ \/ wr_exhausted(acq'[c].wr_err_cnt)
                      \/ rd_exhausted(acq'[c].rd_err_cnt)
              ELSE <<Phase(acq[c].pc), Phase(acq'[c].pc)>> \in PhaseSteps]_vars

\* C27: a technique whose parameters yield a zero-length waveform (N = 0) is
\* a valid measurement: without a link error every acquisition variant runs
\* Setup, ends its cadenced cycle, sends Teardown and finishes in Done; the
\* potentiostatic drain ratio is never evaluated with words_written = 0.
C27_ZeroLengthWaveformRuns ==
    \A c \in Callers :
        /\ acq[c].cause # "zero_division"
        /\ (waveform(req[c]).N = 0 /\ acq[c].pc = "fatal") => acq[c].cause \in LinkErrors

\* C28: while a measurement runs, each channel's error counter equals the
\* number of consecutive failed attempts on that channel since its last
\* successful attempt (0 right after a success), so failures separated by a
\* success never accumulate toward the ceiling.
C28_CountersCountConsecutiveFailures ==
    \A c \in Callers :
        acq[c].pc # "fatal" =>
            /\ acq[c].rd_err_cnt = acq[c].rd_fails
            /\ acq[c].wr_err_cnt = acq[c].wr_fails

\* a read has succeeded after a read had failed: the counter is back at 0
C28_Witness ==
    \E c \in Callers :
        /\ Phase(acq[c].pc) = "cadence"
        /\ acq[c].rd_dly_st > 0
        /\ acq[c].enqueued > 0
        /\ acq[c].rd_fails = 0 /\ acq[c].rd_err_cnt = 0

\* xs is an initial part of ys
IsPrefix(xs, ys) == Len(xs) <= Len(ys) /\ xs = SubSeq(ys, 1, Len(xs))

\* the Setup sequence of a control family
SetupOrder(fam) ==
    IF fam = "GAL"
    THEN <<"SET_TIA_GAIN", "CLEAR_FIFO", "SET_SWITCH">>
    ELSE <<"SET_TIA_GAIN", "CLEAR_FIFO", "FIFO_START", "SET_SWITCH">>

\* c's thread has put a stimulus write, a PID-target write or a sample read
\* on the link, or has called _read_operation
CadenceStarted(c) ==
    \/ acq[c].ever_ok \/ acq[c].enqueued > 0
    \/ acq[c].rd_fails > 0 \/ acq[c].wr_fails > 0
    \/ acq[c].rd_calls > 0 \/ acq[c].wr_att > 0
    \/ acq[c].wr_tx_reg > 0 \/ acq[c].rd_tx_reg > 0

\* C29: in Setup the commands are sent in the order SET_TIA_GAIN,
\* CLEAR_FIFO, FIFO_START (omitted in the galvanostatic family),
\* SET_SWITCH 1, and no stimulus write, PID-target write or sample read is
\* issued before SET_SWITCH 1 in any control family.
C29_SetupOrderBeforeCadence ==
    \A c \in Callers :
        pc[c] = "join_write" =>
            /\ IsPrefix(acq[c].setup_sent, SetupOrder(family(c)))
            /\ Phase(acq[c].pc) \in {"cadence", "teardown"} =>
                   acq[c].setup_sent = SetupOrder(family(c))
            /\ CadenceStarted(c) =>
                   acq[c].setup_sent = SetupOrder(family(c))

\* a galvanostatic run reads samples after a Setup without FIFO_START
C29_Witness ==
    \E c \in Callers :
        /\ family(c) = "GAL"
        /\ acq[c].pc = "read"
        /\ acq[c].enqueued > 0
        /\ acq[c].setup_sent = <<"SET_TIA_GAIN", "CLEAR_FIFO", "SET_SWITCH">>

\* the batches of c's measurement that wait on the channel
BatchesQueued(c) ==
    {k \in 1..Len(data_queue[c]) : data_queue[c][k].kind = "batch"}

\* C30: each successful read produces exactly one channel put carrying all
\* sample pairs decoded from that read, and a failed or skipped read
\* produces no put, so the number of batches put on the channel equals the
\* number of successful reads.
C30_OnePutPerSuccessfulRead ==
    \A c \in Callers :
        pc[c] = "join_write" =>
            /\ log[c].got + Cardinality(BatchesQueued(c)) = acq[c].rd_ok
            /\ \A k \in BatchesQueued(c) :
                  Len(data_queue[c][k].samples) = pairs_of_words(N_REGISTER)

\* reads have succeeded, the latest read failed, and the logger has taken
\* some of the batches
C30_Witness ==
    \E c \in Callers :
        /\ pc[c] = "join_write"
        /\ acq[c].rd_ok > 1
        /\ acq[c].rd_fails > 0
        /\ log[c].got > 0
        /\ BatchesQueued(c) # {}

\* the logger of c takes a batch from the channel in this step and flushes
FlushStep(c) ==
    /\ log[c].pc = "run"
    /\ log'[c].pc = "run"
    /\ log'[c].data_idx # log[c].data_idx

\* C31: the logger performs a non-final flush only when its buffer holds
\* more than 20 samples and more than reducing_factor samples, and after
\* every non-final flush the buffer holds fewer than reducing_factor samples
\* (only the incomplete trailing group stays buffered).
C31_FlushLeavesIncompleteGroup ==
    [][\A c \in Callers :
          FlushStep(c) =>
              LET buf == log[c].buffer \o Head(data_queue[c]).samples
                  factor == reducing_factor(req[c].sampling_interval)
              IN  /\ Len(buf) > FLUSH_THRESHOLD
                  /\ Len(buf) > factor
                  /\ Len(log'[c].buffer) < factor]_vars

\* this step puts a command, a write or a read of c's measurement on the link
DeviceOp(c) ==
    \/ acq[c].pc \in {"setup", "teardown"} /\ acq'[c] # acq[c]
    \/ acq[c].pc = "seg" /\ acq'[c].pc \in {"loop", "fatal"}
    \/ ReadIssued(c)
    \/ WriteIssued(c)

\* C32: every device transport operation (command, write or read) of a
\* measurement is issued while that measurement's apply_measurement call
\* holds the device lock, and the lock is not released until both the
\* acquisition thread and the logger thread of that measurement have
\* terminated.
C32_DeviceOpsUnderLock ==
    [][\A c \in Callers :
          /\ DeviceOp(c) => (device_lock = c /\ device_lock' = c)
          /\ (device_lock = c /\ device_lock' # c) =>
                 /\ acq[c].pc \in {"done", "fatal"}
                 /\ log[c].pc = "stopped"]_vars

\* the lock has been released after a measurement that put samples on the
\* channel, while the other caller waits for the lock
C32_Witness ==
    \E c \in Callers : \E d \in Callers \ {c} :
        /\ pc[c] = "set_path"
        /\ device_lock = None
        /\ acq[c].enqueued > 0
        /\ file[c].closed
        /\ pc[d] = "ready"

\* the acquisition thread of c has ended and is about to be joined
AcqEnded(c) == pc[c] = "join_write" /\ acq[c].pc \in {"done", "fatal"}

\* C33: whenever the acquisition thread terminates (normally, by a fatal
\* link error or by any other exception), the logger thread also terminates,
\* apply_measurement returns, and the device lock is free of it afterwards,
\* so a concurrent caller blocked on the lock eventually proceeds.
C33_TerminationFreesLock ==
    \A c \in Callers :
        /\ AcqEnded(c) ~>
              (pc[c] = "returned" /\ log[c].pc = "stopped" /\ device_lock # c)
        /\ \A d \in Callers \ {c} :
              (AcqEnded(c) /\ pc[d] = "ready") ~> (pc[d] # "ready")

\* an acquisition thread has ended by an exception while the other caller
\* is blocked on the lock
C33_Witness ==
    \E c \in Callers : \E d \in Callers \ {c} :
        /\ AcqEnded(c)
        /\ acq[c].pc = "fatal"
        /\ pc[d] = "ready"

\* the acquisition thread of c is running
AcqRunning(c) == acq[c].pc \notin {"idle", "done", "fatal"}

\* C34: when every issued attempt either fails or succeeds, each acquisition
\* variant terminates: whatever the pattern of successes and failures, the
\* thread of a waveform with at least one sample reaches Done or Fatal.
C34_EveryVariantTerminates ==
    \A c \in Callers :
        AcqRunning(c) ~> (acq[c].pc \in {"done", "fatal"})

\* the potentiostatic loop is running after repeated failures on both
\* channels, its stimulus not yet written
C34_Witness ==
    \E c \in Callers :
        /\ family(c) = "POT" /\ acq[c].pc = "read"
        /\ waveform(req[c]).N >= 1
        /\ acq[c].wr_tx_reg = 0
        /\ acq[c].wr_fails >= 2 /\ acq[c].rd_fails >= 2

\* C35: in the potentiostatic loop the stimulus words are delivered in
\* waveform order in chunks of at most n_register words: a chunk whose write
\* fails is re-sent unchanged on the next write attempt, no chunk is
\* skipped, and no chunk is successfully written twice.
C35_ChunksInOrderOnce ==
    \A c \in Callers :
        (family(c) = "POT" /\ pc[c] = "join_write") =>
            LET a == acq[c]
                n_items == WORDS_PER_FLOAT * waveform(req[c]).N
            IN  /\ \A k \in 1..Len(a.written) :
                      /\ a.written[k].from = (IF k = 1 THEN 1 ELSE a.written[k - 1].to + 1)
                      /\ a.written[k].from <= a.written[k].to
                      /\ a.written[k].to - a.written[k].from < N_REGISTER
                      /\ a.written[k].to <= n_items
                /\ a.wr_fails > 0 => a.wr_data = write_slice(a.i, n_items)
                /\ (a.pc \in {"write", "read", "loop"} /\ a.wr_fails > 0) =>
                      a.wr_data.from = (IF a.written = <<>> THEN 1
                                        ELSE a.written[Len(a.written)].to + 1)
                /\ (a.pc = "teardown" /\ n_items > 0) =>
                      a.written[Len(a.written)].to = n_items

\* the second chunk, shorter than n_register, has been written after a
\* failed attempt to write it
C35_Witness ==
    \E c \in Callers :
        /\ family(c) = "POT" /\ pc[c] = "join_write"
        /\ Len(acq[c].written) = 2
        /\ acq[c].written[2].to - acq[c].written[2].from + 1 < N_REGISTER
        /\ acq[c].wr_dly_st > 0
        /\ acq[c].rd_fails > 0

\* C36: when the potentiostatic loop reaches Teardown for a stimulus of
\* N >= 1 values, at least N (current, potential) sample pairs have been
\* enqueued on the channel.
C36_PotEnqueuesWaveformLength ==
    \A c \in Callers :
        (family(c) = "POT" /\ acq[c].pc = "teardown" /\ waveform(req[c]).N >= 1) =>
            acq[c].enqueued >= waveform(req[c]).N

\* Teardown is reached with no more pairs than the drain test asks for,
\* after reads that failed
C36_Witness ==
    \E c \in Callers :
        /\ family(c) = "POT" /\ acq[c].pc = "teardown"
        /\ waveform(req[c]).N >= 1
        /\ acq[c].rd_dly_st > 0
        /\ acq[c].enqueued = pairs_of_words(2 * acq[c].wr_tx_reg)

\* the waveform indices whose metadata went into data row k of c's file
RowIndices(c, k) == Range(file[c].rows[k].meta)

Called == {c \in Callers : pc[c] # "idle"}

\* C38: once all of a set of concurrent apply_measurement calls on one
\* controller have returned, last_plot_path is the output path of the
\* measurement that held the device lock last.
C38_LastPathOfLastHolder ==
    (/\ \A c \in Called : pc[c] \in {"returned", "raised"}
     /\ \E c \in Called : pc[c] = "returned") =>
        last_plot_path = last_holder

====
